---- MODULE Spec2Model ----
(***************************************************************************)
(* Scalar / ConstValue value model of librustc/mir/interpret/value.rs.     *)
(*                                                                         *)
(* Integers wider than the checker's native integers are kept exact: a     *)
(* value of an n-byte integer type is the sequence of its n bytes, least   *)
(* significant byte first (two's complement for the signed types).  A      *)
(* u128 is a sequence of 16 bytes, a u64 / i64 a sequence of 8 bytes.      *)
(***************************************************************************)
EXTENDS Integers, Sequences, FiniteSets, TLC

VARIABLES pointer_size, debug_assertions, pc, val, made, nofs, cv, ret

vars == <<pointer_size, debug_assertions, pc, val, made, nofs, cv, ret>>

(* ---------------- bounds of the exploration ---------------- *)

\* longest chain of successful offset operations applied to one scalar
MaxOffsets == 2
\* number of distinct allocation identities
MaxAllocs == 2

(* ---------------- widths fixed by the program's types ---------------- *)

\* Scalar::Bits.bits is a u128
U128Bytes == 16
\* new_slice's len, Size::bytes() and the layout arithmetic are u64 / i64
U64Bytes == 8
\* a char / u32 / i32 is four bytes
U32Bytes == 4
\* i8 / u8 / bool
U8Bytes == 1

(* ---------------- fixed-width integers as byte sequences ---------------- *)

\* the integer 0 of an n-byte type
Zeros(n) == [k \in 1..n |-> 0]

\* `x as uN` from a narrower unsigned type: zero extension
ZeroExtend(v, n) == [k \in 1..n |-> IF k <= Len(v) THEN v[k] ELSE 0]

\* `x as iN` / `.into()` from a narrower signed type: sign extension
SignExtendCast(v, n) ==
    [k \in 1..n |-> IF k <= Len(v) THEN v[k]
                    ELSE IF Len(v) > 0 /\ v[Len(v)] >= 128 THEN 255 ELSE 0]

\* `x as uN` / `x as iN` to a narrower type: keep the low n bytes
LowBytes(v, n) == [k \in 1..n |-> v[k]]

\* bytes k.. of a + b + carry, for two integers of the same width
RECURSIVE AddFrom(_, _, _, _)
AddFrom(a, b, k, carry) ==
    IF k > Len(a) THEN <<>>
    ELSE <<(a[k] + b[k] + carry) % 256>>
         \o AddFrom(a, b, k + 1, (a[k] + b[k] + carry) \div 256)

\* a + b modulo 2^(8*n) for two n-byte integers
WrappingAdd(a, b) == AddFrom(a, b, 1, 0)

\* the sign bit of a two's-complement integer
IsNegative(v) == v[Len(v)] >= 128

\* v < 2^(8*n): every byte from index n upwards is zero
FitsIn(v, n) == \A k \in 1..Len(v) : k > n => v[k] = 0

IsZero(v) == \A k \in 1..Len(v) : v[k] = 0

(* ---------------- bit primitives ---------------- *)

\* mask a u128 to its low `size` bytes
truncate(value, size) ==
    [k \in 1..U128Bytes |-> IF k <= size THEN value[k] ELSE 0]

\* replicate the sign bit (top bit of byte `size`) into all higher bits
sign_extend(value, size) ==
    [k \in 1..U128Bytes |->
        IF k <= size THEN value[k]
        ELSE IF size > 0 /\ value[size] >= 128 THEN 255 ELSE 0]

(* ---------------- results ---------------- *)

\* a normal return: `Ok(v)` of an EvalResult, or the value of a plain fn
Ok(v) == [kind |-> "Ok", v |-> v]
\* `err!(e)`: a typed, recoverable evaluation error
Err(e) == [kind |-> "Err", v |-> e]
\* a failed assert_eq! / assert_ne! / debug_assert_eq!: the call aborts
Panic(m) == [kind |-> "Panic", v |-> m]
\* Option
Some(v) == [kind |-> "Some", v |-> v]
None == [kind |-> "None", v |-> "None"]

(* ---------------- the value types ---------------- *)

Pointer(alloc_id, offset) == [alloc_id |-> alloc_id, offset |-> offset]

Scalar_Bits(bits, size) == [tag |-> "Bits", bits |-> bits, size |-> size]
Scalar_Ptr(ptr) == [tag |-> "Ptr", ptr |-> ptr]

ConstValue_Unevaluated(def, substs) ==
    [tag |-> "Unevaluated", def |-> def, substs |-> substs]
ConstValue_Scalar(s) == [tag |-> "Scalar", a |-> s]
ConstValue_ScalarPair(s, t) == [tag |-> "ScalarPair", a |-> s, b |-> t]
ConstValue_ByRef(id, alloc, offset) ==
    [tag |-> "ByRef", id |-> id, alloc |-> alloc, offset |-> offset]

\* `size.bytes() as u8`
AsU8(n) == n % 256

(* ---------------- data layout: address-space arithmetic ---------------- *)

\* val + i over the integers (val a u64, i an i64), reported as the result
\* reduced into the 2^(8*ps)-wide address space and whether it left it
overflowing_signed_offset(value, i, ps) ==
    LET wide == WrappingAdd(ZeroExtend(value, U128Bytes),
                            SignExtendCast(i, U128Bytes))
    IN  [res  |-> LowBytes(truncate(wide, ps), U64Bytes),
         over |-> IsNegative(wide) \/ ~FitsIn(wide, ps)]

\* val + i over the integers (both u64), likewise
overflowing_offset(value, i, ps) ==
    LET wide == WrappingAdd(ZeroExtend(value, U128Bytes),
                            ZeroExtend(i, U128Bytes))
    IN  [res  |-> LowBytes(truncate(wide, ps), U64Bytes),
         over |-> ~FitsIn(wide, ps)]

layout_signed_offset(value, i, ps) ==
    LET r == overflowing_signed_offset(value, i, ps)
    IN  IF r.over THEN Err("Overflow") ELSE Ok(r.res)

layout_offset(value, i, ps) ==
    LET r == overflowing_offset(value, i, ps)
    IN  IF r.over THEN Err("Overflow") ELSE Ok(r.res)

layout_wrapping_signed_offset(value, i, ps) ==
    overflowing_signed_offset(value, i, ps).res

(* ---------------- Pointer arithmetic ---------------- *)

Pointer_signed_offset(ptr, i, ps) ==
    LET r == layout_signed_offset(ptr.offset, i, ps)
    IN  IF r.kind = "Err" THEN r ELSE Ok(Pointer(ptr.alloc_id, r.v))

Pointer_offset(ptr, i, ps) ==
    LET r == layout_offset(ptr.offset, i, ps)
    IN  IF r.kind = "Err" THEN r ELSE Ok(Pointer(ptr.alloc_id, r.v))

Pointer_wrapping_signed_offset(ptr, i, ps) ==
    Pointer(ptr.alloc_id, layout_wrapping_signed_offset(ptr.offset, i, ps))

(* ---------------- Scalar ---------------- *)

ptr_null(ps) == Scalar_Bits(Zeros(U128Bytes), AsU8(ps))

\* zst tagged as one byte wide
zst_one_byte == Scalar_Bits(Zeros(U128Bytes), 1)

zst == Scalar_Bits(Zeros(U128Bytes), 0)

ptr_signed_offset(self, i, ps) ==
    IF self.tag = "Bits"
    THEN IF self.size # ps THEN Panic("assert_eq")
         ELSE LET r == layout_signed_offset(LowBytes(self.bits, U64Bytes), i, ps)
              IN  IF r.kind = "Err" THEN r
                  ELSE Ok(Scalar_Bits(ZeroExtend(r.v, U128Bytes), self.size))
    ELSE LET r == Pointer_signed_offset(self.ptr, i, ps)
         IN  IF r.kind = "Err" THEN r ELSE Ok(Scalar_Ptr(r.v))

ptr_offset(self, i, ps) ==
    IF self.tag = "Bits"
    THEN IF self.size # ps THEN Panic("assert_eq")
         ELSE LET r == layout_offset(LowBytes(self.bits, U64Bytes), i, ps)
              IN  IF r.kind = "Err" THEN r
                  ELSE Ok(Scalar_Bits(ZeroExtend(r.v, U128Bytes), self.size))
    ELSE LET r == Pointer_offset(self.ptr, i, ps)
         IN  IF r.kind = "Err" THEN r ELSE Ok(Scalar_Ptr(r.v))

\* the wrapping offset re-tagging its result as a 64-bit integer
ptr_wrapping_signed_offset_retag(self, i, ps) ==
    IF self.tag = "Bits"
    THEN IF self.size # ps THEN Panic("assert_eq")
         ELSE Ok(Scalar_Bits(
                 ZeroExtend(layout_wrapping_signed_offset(
                                LowBytes(self.bits, U64Bytes), i, ps),
                            U128Bytes),
                 U64Bytes))
    ELSE Ok(Scalar_Ptr(Pointer_wrapping_signed_offset(self.ptr, i, ps)))

ptr_wrapping_signed_offset(self, i, ps) ==
    IF self.tag = "Bits"
    THEN IF self.size # ps THEN Panic("assert_eq")
         ELSE Ok(Scalar_Bits(
                 ZeroExtend(layout_wrapping_signed_offset(
                                LowBytes(self.bits, U64Bytes), i, ps),
                            U128Bytes),
                 self.size))
    ELSE Ok(Scalar_Ptr(Pointer_wrapping_signed_offset(self.ptr, i, ps)))

\* is_null_ptr looking at a pointer's numeric offset
is_null_ptr_by_offset(self, ps) ==
    IF self.tag = "Bits"
    THEN IF self.size # ps THEN Panic("assert_eq")
         ELSE Ok(IsZero(self.bits))
    ELSE Ok(IsZero(self.ptr.offset))

is_null_ptr(self, ps) ==
    IF self.tag = "Bits"
    THEN IF self.size # ps THEN Panic("assert_eq")
         ELSE Ok(IsZero(self.bits))
    ELSE Ok(FALSE)

from_bool(b) ==
    Scalar_Bits(ZeroExtend(<<IF b THEN 1 ELSE 0>>, U128Bytes), 1)

\* c: the char's code point as a u32
from_char(c) == Scalar_Bits(ZeroExtend(c, U128Bytes), 4)

\* from_uint going through a u64
from_uint_via_u64(i, size, debug) ==
    IF debug /\ truncate(i, size) # i THEN Panic("debug_assert_eq")
    ELSE Ok(Scalar_Bits(ZeroExtend(LowBytes(i, U64Bytes), U128Bytes), AsU8(size)))

\* debug: whether the build compiles debug assertions in
from_uint(i, size, debug) ==
    IF debug /\ truncate(i, size) # i THEN Panic("debug_assert_eq")
    ELSE Ok(Scalar_Bits(i, AsU8(size)))

\* from_int storing the sign-extended value without truncating it
from_int_untruncated(i, size, debug) ==
    LET truncated == truncate(i, size)
    IN  IF debug /\ sign_extend(truncated, size) # i
        THEN Panic("debug_assert_eq")
        ELSE Ok(Scalar_Bits(i, AsU8(size)))

from_int(i, size, debug) ==
    LET truncated == truncate(i, size)
    IN  IF debug /\ sign_extend(truncated, size) # i
        THEN Panic("debug_assert_eq")
        ELSE Ok(Scalar_Bits(truncated, AsU8(size)))

\* to_bits without the zero-size assertion
to_bits_allowing_zst(self, target_size) ==
    IF self.tag = "Bits"
    THEN IF target_size # self.size THEN Panic("assert_eq")
         ELSE Ok(self.bits)
    ELSE Err("ReadPointerAsBytes")

to_bits(self, target_size) ==
    IF self.tag = "Bits"
    THEN IF target_size # self.size THEN Panic("assert_eq")
         ELSE IF self.size = 0 THEN Panic("to_bits cannot be used with zsts")
         ELSE Ok(self.bits)
    ELSE Err("ReadPointerAsBytes")

\* to_ptr reporting a null pointer only for scalars that occupy storage
to_ptr_sized_null(self) ==
    IF self.tag = "Bits"
    THEN IF IsZero(self.bits) /\ self.size # 0 THEN Err("InvalidNullPointerUsage")
         ELSE Err("ReadBytesAsPointer")
    ELSE Ok(self.ptr)

to_ptr(self) ==
    IF self.tag = "Bits"
    THEN IF IsZero(self.bits) THEN Err("InvalidNullPointerUsage")
         ELSE Err("ReadBytesAsPointer")
    ELSE Ok(self.ptr)

is_bits(self) == self.tag = "Bits"

is_ptr(self) == self.tag = "Ptr"

\* to_bool reading every nonzero byte as true
to_bool_nonzero(self) ==
    IF self.tag = "Bits" /\ self.size = 1
       /\ self.bits = ZeroExtend(<<0>>, U128Bytes) THEN Ok(FALSE)
    ELSE IF self.tag = "Bits" /\ self.size = 1 THEN Ok(TRUE)
    ELSE Err("InvalidBool")

to_bool(self) ==
    IF self.tag = "Bits" /\ self.size = 1
       /\ self.bits = ZeroExtend(<<0>>, U128Bytes) THEN Ok(FALSE)
    ELSE IF self.tag = "Bits" /\ self.size = 1
       /\ self.bits = ZeroExtend(<<1>>, U128Bytes) THEN Ok(TRUE)
    ELSE Err("InvalidBool")

to_i8(self) ==
    LET r == to_bits(self, U8Bytes)
    IN  IF r.kind # "Ok" THEN r
        ELSE LET b == sign_extend(r.v, U8Bytes)
             IN  IF SignExtendCast(LowBytes(b, U8Bytes), U128Bytes) # b
                 THEN Panic("assert_eq")
                 ELSE Ok(LowBytes(b, U8Bytes))

to_i32(self) ==
    LET r == to_bits(self, U32Bytes)
    IN  IF r.kind # "Ok" THEN r
        ELSE LET b == sign_extend(r.v, U32Bytes)
             IN  IF SignExtendCast(LowBytes(b, U32Bytes), U128Bytes) # b
                 THEN Panic("assert_eq")
                 ELSE Ok(LowBytes(b, U32Bytes))

to_i64(self) ==
    LET r == to_bits(self, U64Bytes)
    IN  IF r.kind # "Ok" THEN r
        ELSE LET b == sign_extend(r.v, U64Bytes)
             IN  IF SignExtendCast(LowBytes(b, U64Bytes), U128Bytes) # b
                 THEN Panic("assert_eq")
                 ELSE Ok(LowBytes(b, U64Bytes))

to_isize(self, ps) ==
    LET r == to_bits(self, ps)
    IN  IF r.kind # "Ok" THEN r
        ELSE LET b == sign_extend(r.v, ps)
             IN  IF SignExtendCast(LowBytes(b, U64Bytes), U128Bytes) # b
                 THEN Panic("assert_eq")
                 ELSE Ok(LowBytes(b, U64Bytes))

(* ---------------- ConstValue ---------------- *)

try_to_scalar(self) ==
    IF self.tag = "Scalar" THEN Some(self.a) ELSE None

\* `.ok()` turns Err into None; a panic inside to_bits propagates
try_to_bits(self, size) ==
    LET s == try_to_scalar(self)
    IN  IF s.kind = "None" THEN None
        ELSE LET r == to_bits(s.v, size)
             IN  IF r.kind = "Ok" THEN Some(r.v)
                 ELSE IF r.kind = "Err" THEN None
                 ELSE r

try_to_ptr(self) ==
    LET s == try_to_scalar(self)
    IN  IF s.kind = "None" THEN None
        ELSE LET r == to_ptr(s.v)
             IN  IF r.kind = "Ok" THEN Some(r.v) ELSE None

\* new_slice tagging the length as a 64-bit integer on every target
new_slice_u64_len(value, len, ps) ==
    ConstValue_ScalarPair(value,
                          Scalar_Bits(ZeroExtend(len, U128Bytes), U64Bytes))

\* len: a u64
new_slice(value, len, ps) ==
    ConstValue_ScalarPair(value,
                          Scalar_Bits(ZeroExtend(len, U128Bytes), AsU8(ps)))

new_dyn_trait(value, vtable) ==
    ConstValue_ScalarPair(value, Scalar_Ptr(vtable))

(* ---------------- inputs ---------------- *)

\* pointer widths of the supported targets, in bytes
PointerSizes == {2, 4, 8}

\* byte widths a caller passes as `Size`
SizeSamples == {0, 1, 2, 4, 8, 16}

\* the n-byte integer whose top byte is hi and whose other bytes are lo
Pattern(n, lo, hi) == [k \in 1..n |-> IF k = n THEN hi ELSE lo]

\* per width n: 2^(8n-8), the sign bit 2^(8n-1), 2^(8n-1) - 1, 2^(8n) - 1
Patterns ==
    {Pattern(n, x[1], x[2]) : n \in {1, 2, 4, 8, 16},
                              x \in {<<0, 1>>, <<0, 128>>, <<255, 127>>, <<255, 255>>}}
    \cup {<<0>>, <<2>>}

\* u128 arguments: 0, 1, 2, 0x7f, 0x80, 0xff, 0x100, 0x8000, ..., u128::MAX
U128Samples == {ZeroExtend(p, U128Bytes) : p \in Patterns}

\* i128 arguments: the same patterns read as signed integers of their width
I128Samples == {SignExtendCast(p, U128Bytes) : p \in Patterns}

\* slice lengths (u64): 0, 5, 2^16 - 1, 2^16, 2^32, u64::MAX
LenSamples ==
    {ZeroExtend(p, U64Bytes) :
        p \in {<<0>>, <<5>>, <<255, 255>>, <<0, 0, 1>>, <<0, 0, 0, 0, 1>>,
               Pattern(U64Bytes, 255, 255)}}

\* signed offsets (i64): +1, -1
SignedOffsets ==
    {SignExtendCast(<<1>>, U64Bytes), SignExtendCast(<<255>>, U64Bytes)}

\* unsigned offsets (Size): 2^16 - 1
UnsignedOffsets == {ZeroExtend(<<255, 255>>, U64Bytes)}

\* chars as code points: NUL, 'A', char::MAX
CharSamples ==
    {ZeroExtend(<<0>>, U32Bytes), ZeroExtend(<<65>>, U32Bytes),
     ZeroExtend(<<255, 255, 16>>, U32Bytes)}

AllocIds == 1..MaxAllocs

\* pointers handed in by the memory subsystem
PointerSamples ==
    {Pointer(a, ZeroExtend(o, U64Bytes)) : a \in AllocIds, o \in {<<0>>, <<1>>, <<255, 255>>}}

(* ---------------- the state machine ---------------- *)

\* the record of one call: the operation, its receiver, its other
\* arguments and its outcome
Call(op, self, arg, out) == [op |-> op, self |-> self, arg |-> arg, out |-> out]

\* scalars a finished evaluation hands to the ConstValue constructors
ScalarSamples(ps) ==
    {zst, ptr_null(ps), from_bool(TRUE), from_char(ZeroExtend(<<65>>, U32Bytes)),
     from_uint(ZeroExtend(<<5>>, U128Bytes), ps, TRUE).v,
     from_int(SignExtendCast(<<255>>, U128Bytes), ps, TRUE).v}
    \cup {Scalar_Ptr(p) : p \in PointerSamples}

\* Scalar life cycle: pc = "new" until a constructor has produced the scalar
\* val, then "scalar" while offsets and accessors are applied to it.  made is
\* the constructor call that produced the scalar and nofs the number of
\* successful offsets applied to it since.
Init ==
    /\ pointer_size \in PointerSizes
    /\ debug_assertions \in BOOLEAN
    /\ pc = "new"
    /\ val = zst
    /\ made = Call("none", zst, <<>>, Ok(zst))
    /\ nofs = 0
    /\ cv = ConstValue_Unevaluated("def", "substs")
    /\ ret = Call("none", zst, <<>>, Ok(zst))

\* the scalar the chain of offsets started from
base == made.out.v

\* ConstValue life cycle: the evaluator holds a scalar and wraps it
InitConst ==
    /\ pointer_size \in PointerSizes
    /\ debug_assertions \in BOOLEAN
    /\ pc = "const"
    /\ val \in ScalarSamples(pointer_size)
    /\ made = Call("none", val, <<>>, Ok(val))
    /\ nofs = 0
    /\ cv = ConstValue_Unevaluated("def", "substs")
    /\ ret = Call("none", val, <<>>, Ok(val))

\* a constructor produced r (Ok or Panic): on Ok it becomes the scalar
Produce(op, arg, r) ==
    /\ pc = "new"
    /\ ret' = Call(op, val, arg, r)
    /\ IF r.kind = "Ok"
       THEN val' = r.v /\ made' = Call(op, val, arg, r) /\ pc' = "scalar"
       ELSE UNCHANGED <<val, made, pc>>
    /\ UNCHANGED <<pointer_size, debug_assertions, nofs, cv>>

\* an offset operation returned r: on Ok the scalar is replaced
Offset(op, arg, r) ==
    /\ pc = "scalar"
    /\ nofs < MaxOffsets
    /\ ret' = Call(op, val, arg, r)
    /\ IF r.kind = "Ok"
       THEN val' = r.v /\ nofs' = nofs + 1
       ELSE UNCHANGED <<val, nofs>>
    /\ UNCHANGED <<pointer_size, debug_assertions, pc, made, cv>>

\* an accessor of the scalar returned r
Access(op, arg, r) ==
    /\ pc = "scalar"
    /\ ret' = Call(op, val, arg, r)
    /\ UNCHANGED <<pointer_size, debug_assertions, pc, val, made, nofs, cv>>

\* a ConstValue c was built
Build(op, arg, c) ==
    /\ pc = "const"
    /\ cv' = c
    /\ ret' = Call(op, val, arg, Ok(c))
    /\ UNCHANGED <<pointer_size, debug_assertions, pc, val, made, nofs>>

\* a narrowing of the constant returned r
Narrow(op, arg, r) ==
    /\ pc = "const"
    /\ ret' = Call(op, cv, arg, r)
    /\ UNCHANGED <<pointer_size, debug_assertions, pc, val, made, nofs, cv>>

PtrNull == Produce("ptr_null", <<>>, Ok(ptr_null(pointer_size)))

Zst == Produce("zst", <<>>, Ok(zst))

FromBool == \E b \in BOOLEAN : Produce("from_bool", <<b>>, Ok(from_bool(b)))

FromChar == \E c \in CharSamples : Produce("from_char", <<c>>, Ok(from_char(c)))

FromUint ==
    \E i \in U128Samples, size \in SizeSamples :
        Produce("from_uint", <<i, size>>, from_uint(i, size, debug_assertions))

FromInt ==
    \E i \in I128Samples, size \in SizeSamples :
        Produce("from_int", <<i, size>>, from_int(i, size, debug_assertions))

FromPointer == \E p \in PointerSamples : Produce("from", <<p>>, Ok(Scalar_Ptr(p)))

PtrSignedOffset ==
    \E i \in SignedOffsets :
        Offset("ptr_signed_offset", <<i>>, ptr_signed_offset(val, i, pointer_size))

PtrOffset ==
    \E i \in UnsignedOffsets :
        Offset("ptr_offset", <<i>>, ptr_offset(val, i, pointer_size))

PtrWrappingSignedOffset ==
    \E i \in SignedOffsets :
        Offset("ptr_wrapping_signed_offset", <<i>>,
               ptr_wrapping_signed_offset(val, i, pointer_size))

IsNullPtr == Access("is_null_ptr", <<>>, is_null_ptr(val, pointer_size))

IsBits == Access("is_bits", <<>>, Ok(is_bits(val)))

ToBits ==
    \E target_size \in SizeSamples :
        Access("to_bits", <<target_size>>, to_bits(val, target_size))

ToPtr == Access("to_ptr", <<>>, to_ptr(val))

ToBool == Access("to_bool", <<>>, to_bool(val))

ToI8 == Access("to_i8", <<>>, to_i8(val))

ToI32 == Access("to_i32", <<>>, to_i32(val))

ToI64 == Access("to_i64", <<>>, to_i64(val))

ToIsize == Access("to_isize", <<>>, to_isize(val, pointer_size))

MkUnevaluated ==
    Build("Unevaluated", <<>>, ConstValue_Unevaluated("def", "substs"))

MkScalar == Build("Scalar", <<>>, ConstValue_Scalar(val))

MkByRef ==
    \E a \in AllocIds :
        Build("ByRef", <<a>>, ConstValue_ByRef(a, "allocation", Zeros(U64Bytes)))

NewSlice ==
    \E len \in LenSamples :
        Build("new_slice", <<len>>, new_slice(val, len, pointer_size))

NewDynTrait ==
    \E vtable \in PointerSamples :
        Build("new_dyn_trait", <<vtable>>, new_dyn_trait(val, vtable))

TryToScalar == Narrow("try_to_scalar", <<>>, try_to_scalar(cv))

TryToBits ==
    \E size \in SizeSamples : Narrow("try_to_bits", <<size>>, try_to_bits(cv, size))

TryToPtr == Narrow("try_to_ptr", <<>>, try_to_ptr(cv))

Next ==
    \/ PtrNull
    \/ Zst
    \/ FromBool
    \/ FromChar
    \/ FromUint
    \/ FromInt
    \/ FromPointer
    \/ PtrSignedOffset
    \/ PtrOffset
    \/ PtrWrappingSignedOffset
    \/ IsNullPtr
    \/ IsBits
    \/ ToBits
    \/ ToPtr
    \/ ToBool
    \/ ToI8
    \/ ToI32
    \/ ToI64
    \/ ToIsize

NextConst ==
    \/ MkUnevaluated
    \/ MkScalar
    \/ MkByRef
    \/ NewSlice
    \/ NewDynTrait
    \/ TryToScalar
    \/ TryToBits
    \/ TryToPtr

Spec == Init /\ [][Next]_vars

SpecConst == InitConst /\ [][NextConst]_vars

(* ---------------- properties ---------------- *)

IsOk(r, v) == r.kind = "Ok" /\ r.v = v
IsErr(r, e) == r.kind = "Err" /\ r.v = e
IsPanic(r) == r.kind = "Panic"

\* the Bits invariant: bits < 2^(8*size); for size 0 this says bits = 0
BitsInvariant(s) == s.tag = "Bits" => FitsIn(s.bits, s.size)

\* an i128 that is representable as a signed integer of n bytes
Representable(i, n) ==
    \A k \in 1..U128Bytes : k > n => i[k] = (IF i[n] >= 128 THEN 255 ELSE 0)

IntegerWidths == {1, 2, 4, 8, 16}

\* C1: every Scalar::Bits this layer produces satisfies the Bits invariant
\* (bits < 2^(8*size)): the scalar held by the evaluator and both
\* components of the constant built from it, the length component that
\* new_slice builds for any 64-bit length and pointer width included.
C1_BitsInvariant ==
    /\ BitsInvariant(val)
    /\ cv.tag \in {"Scalar", "ScalarPair"} => BitsInvariant(cv.a)
    /\ cv.tag = "ScalarPair" => BitsInvariant(cv.b)

\* C2: a chain of successful offset operations keeps the variant the scalar
\* started with: Bits stays Bits with the same size tag (to_ptr still
\* fails), Ptr stays Ptr with the same allocation identity.
C2_OffsetsKeepVariant ==
    pc = "scalar" =>
        /\ val.tag = base.tag
        /\ base.tag = "Bits" =>
               /\ val.size = base.size
               /\ to_ptr(val).kind = "Err"
               /\ nofs > 0 => val.size = pointer_size
        /\ base.tag = "Ptr" => val.ptr.alloc_id = base.ptr.alloc_id

C2_Witness ==
    /\ pc = "scalar"
    /\ nofs = 2
    /\ val # base
    /\ ret.op = "ptr_wrapping_signed_offset"

\* C3 as stated: to_bits returns ReadPointerAsBytes on Ptr, the stored pattern
\* on Bits whose size equals the target width, and aborts on Bits whose size
\* differs from it.
C3_ToBitsAsStated ==
    ret.op = "to_bits" =>
        /\ ret.self.tag = "Ptr" => IsErr(ret.out, "ReadPointerAsBytes")
        /\ (ret.self.tag = "Bits" /\ ret.self.size = ret.arg[1]) =>
               IsOk(ret.out, ret.self.bits)
        /\ (ret.self.tag = "Bits" /\ ret.self.size # ret.arg[1]) =>
               IsPanic(ret.out)

\* C3 amended: to_bits returns ReadPointerAsBytes on Ptr, the stored pattern
\* on Bits whose nonzero size equals the target width, and aborts on Bits
\* whose size differs from the target width or is zero.
C3_ToBitsOutcomes ==
    ret.op = "to_bits" =>
        /\ ret.self.tag = "Ptr" => IsErr(ret.out, "ReadPointerAsBytes")
        /\ (ret.self.tag = "Bits" /\ ret.self.size = ret.arg[1]
            /\ ret.self.size # 0) => IsOk(ret.out, ret.self.bits)
        /\ (ret.self.tag = "Bits"
            /\ (ret.self.size # ret.arg[1] \/ ret.self.size = 0)) =>
               IsPanic(ret.out)

C3_Witness ==
    /\ ret.op = "to_bits"
    /\ made.op = "from_uint"
    /\ ret.self.tag = "Bits"
    /\ ret.self.size = 0
    /\ ret.arg[1] = 0
    /\ IsPanic(ret.out)

\* C4: to_ptr never aborts: Ptr(p) gives p, Bits with a zero pattern gives
\* InvalidNullPointerUsage and Bits with a nonzero pattern gives
\* ReadBytesAsPointer, whatever the size tag.
C4_ToPtrTotal ==
    ret.op = "to_ptr" =>
        /\ ~IsPanic(ret.out)
        /\ ret.self.tag = "Ptr" => IsOk(ret.out, ret.self.ptr)
        /\ (ret.self.tag = "Bits" /\ IsZero(ret.self.bits)) =>
               IsErr(ret.out, "InvalidNullPointerUsage")
        /\ (ret.self.tag = "Bits" /\ ~IsZero(ret.self.bits)) =>
               IsErr(ret.out, "ReadBytesAsPointer")

C4_Witness ==
    /\ ret.op = "to_ptr"
    /\ ret.self.tag = "Bits"
    /\ ret.self.size = 0
    /\ IsErr(ret.out, "InvalidNullPointerUsage")

\* C5: for a width in {1,2,4,8,16} and v = truncate(v, width), from_uint(v,
\* width) succeeds and to_bits(width) on its result returns exactly v.
C5_UnsignedRoundTrip ==
    /\ (ret.op = "from_uint" /\ ret.arg[2] \in IntegerWidths
        /\ truncate(ret.arg[1], ret.arg[2]) = ret.arg[1]) =>
           ret.out.kind = "Ok"
    /\ (pc = "scalar" /\ made.op = "from_uint" /\ nofs = 0
        /\ made.arg[2] \in IntegerWidths
        /\ truncate(made.arg[1], made.arg[2]) = made.arg[1]
        /\ ret.op = "to_bits" /\ ret.arg[1] = made.arg[2]) =>
           IsOk(ret.out, made.arg[1])

C5_Witness ==
    /\ made.op = "from_uint"
    /\ made.arg[2] = U128Bytes
    /\ ret.op = "to_bits"
    /\ ret.out.kind = "Ok"
    /\ ~FitsIn(ret.out.v, U64Bytes)

\* C6: for a width in {1,2,4,8,16} and a signed v representable in it,
\* from_int(v, width) stores truncate(v, width) with size tag width, and the
\* signed accessor of that width (to_i8, to_i32, to_i64, to_isize for the
\* pointer width) returns v.
C6_SignedRoundTrip ==
    /\ (ret.op = "from_int" /\ ret.arg[2] \in IntegerWidths
        /\ Representable(ret.arg[1], ret.arg[2])) =>
           IsOk(ret.out, Scalar_Bits(truncate(ret.arg[1], ret.arg[2]), ret.arg[2]))
    /\ (pc = "scalar" /\ made.op = "from_int" /\ nofs = 0
        /\ made.arg[2] \in IntegerWidths
        /\ Representable(made.arg[1], made.arg[2])
        /\ \/ ret.op = "to_i8" /\ made.arg[2] = U8Bytes
           \/ ret.op = "to_i32" /\ made.arg[2] = U32Bytes
           \/ ret.op = "to_i64" /\ made.arg[2] = U64Bytes
           \/ ret.op = "to_isize" /\ made.arg[2] = pointer_size) =>
           /\ ret.out.kind = "Ok"
           /\ SignExtendCast(ret.out.v, U128Bytes) = made.arg[1]
           /\ Len(ret.out.v) = (IF ret.op = "to_i8" THEN U8Bytes
                                ELSE IF ret.op = "to_i32" THEN U32Bytes
                                ELSE U64Bytes)

C6_Witness ==
    /\ made.op = "from_int"
    /\ nofs = 0
    /\ ret.op = "to_isize"
    /\ pointer_size = 2
    /\ ret.out.kind = "Ok"
    /\ IsNegative(ret.out.v)

\* C7 as stated: zst() is Bits with size 0 and pattern 0, is_bits holds of
\* it, and to_bits(0) on it returns 0.
C7_ZstAsStated ==
    (pc = "scalar" /\ made.op = "zst") =>
        /\ val = Scalar_Bits(Zeros(U128Bytes), 0)
        /\ ret.op = "is_bits" => IsOk(ret.out, TRUE)
        /\ (ret.op = "to_bits" /\ ret.arg[1] = 0) =>
               (ret.out.kind = "Ok" /\ IsZero(ret.out.v))

\* C7 amended: zst() is Bits with size 0 and pattern 0, is_bits holds of
\* it, and to_bits(0) on it aborts (to_bits cannot be used with zero-sized
\* scalars).
C7_Zst ==
    (pc = "scalar" /\ made.op = "zst") =>
        /\ val = Scalar_Bits(Zeros(U128Bytes), 0)
        /\ ret.op = "is_bits" => IsOk(ret.out, TRUE)
        /\ (ret.op = "to_bits" /\ ret.arg[1] = 0) => IsPanic(ret.out)

C7_Witness ==
    /\ pc = "scalar"
    /\ made.op = "zst"
    /\ ret.op = "to_bits"
    /\ ret.arg[1] = 0
    /\ IsPanic(ret.out)

\* C8: is_null_ptr returns true exactly for a pointer-width Bits scalar with
\* a zero pattern: true on ptr_null(layout), false on pointer-width Bits with
\* a nonzero pattern, false on every Ptr whatever its offset.
C8_IsNullPtr ==
    ret.op = "is_null_ptr" =>
        /\ (ret.out.kind = "Ok" /\ ret.out.v)
               <=> (ret.self.tag = "Bits" /\ ret.self.size = pointer_size
                    /\ IsZero(ret.self.bits))
        /\ ret.self.tag = "Ptr" => IsOk(ret.out, FALSE)
        /\ (ret.self.tag = "Bits" /\ ret.self.size = pointer_size
            /\ ~IsZero(ret.self.bits)) => IsOk(ret.out, FALSE)
        /\ (made.op = "ptr_null" /\ nofs = 0) => IsOk(ret.out, TRUE)

C8_Witness ==
    /\ ret.op = "is_null_ptr"
    /\ ret.self.tag = "Ptr"
    /\ IsZero(ret.self.ptr.offset)
    /\ nofs = 2
    /\ IsOk(ret.out, FALSE)

\* C9: to_bool returns false / true for a one-byte Bits scalar with pattern
\* 0 / 1 and fails with InvalidBool for every other scalar; from_bool(b)
\* reads back as b.
C9_ToBool ==
    ret.op = "to_bool" =>
        /\ IF ret.self.tag = "Bits" /\ ret.self.size = 1
              /\ ret.self.bits = ZeroExtend(<<0>>, U128Bytes)
           THEN IsOk(ret.out, FALSE)
           ELSE IF ret.self.tag = "Bits" /\ ret.self.size = 1
                   /\ ret.self.bits = ZeroExtend(<<1>>, U128Bytes)
           THEN IsOk(ret.out, TRUE)
           ELSE IsErr(ret.out, "InvalidBool")
        /\ (made.op = "from_bool" /\ nofs = 0) => IsOk(ret.out, made.arg[1])

C9_Witness ==
    /\ ret.op = "to_bool"
    /\ ret.self.tag = "Bits"
    /\ ret.self.size = 1
    /\ ret.self.bits = ZeroExtend(<<2>>, U128Bytes)
    /\ IsErr(ret.out, "InvalidBool")

\* C10: new_slice(p, n, layout) is ScalarPair(p, Bits{n, pointer width});
\* try_to_scalar, try_to_bits and try_to_ptr return None on Unevaluated,
\* ByRef and ScalarPair; try_to_scalar returns the wrapped scalar of a
\* ConstValue::Scalar.
C10_SliceAndNarrowing ==
    /\ ret.op = "new_slice" =>
           /\ cv.tag = "ScalarPair"
           /\ cv.a = val
           /\ cv.b = Scalar_Bits(ZeroExtend(ret.arg[1], U128Bytes), pointer_size)
    /\ (ret.op \in {"try_to_scalar", "try_to_bits", "try_to_ptr"}
        /\ ret.self.tag \in {"Unevaluated", "ByRef", "ScalarPair"}) =>
           ret.out.kind = "None"
    /\ (ret.op = "try_to_scalar" /\ ret.self.tag = "Scalar") =>
           (ret.out.kind = "Some" /\ ret.out.v = ret.self.a)

C10_Witness ==
    /\ ret.op = "try_to_scalar"
    /\ ret.self.tag = "ScalarPair"
    /\ ret.self.b = Scalar_Bits(ZeroExtend(<<5>>, U128Bytes), pointer_size)
    /\ ret.out.kind = "None"

====
